---- MODULE Spec2Model ----
(***************************************************************************)
(* A model of the DatePicker control of src/src/DatePicker/DatePicker.tsx: *)
(* the DatePicker component (popup flag, input text, document click        *)
(* listener behind a "latest" ref) and the DatePickerPoputContent          *)
(* component (panel year/month, navigation, cell clicks).                  *)
(*                                                                         *)
(* One action is one DOM event (or one re-render caused by the parent)     *)
(* together with the whole of React's reaction to it: the handlers that    *)
(* run, the re-render, the layout effects of that re-render, and the       *)
(* document level listener the event bubbles to.                           *)
(*                                                                         *)
(* ./utils (parser, formatter, range predicate, grid builder) is not among *)
(* the sources; those operators follow sections 3 and 4 of the             *)
(* specification.                                                          *)
(***************************************************************************)
EXTENDS Integers, Sequences, FiniteSets, TLC

VARIABLES
    value,       \* prop `value`: the selected date, owned by the caller
    min,         \* prop `min` (Undefined when absent)
    max,         \* prop `max` (Undefined when absent)
    showPopup,   \* useState(false), DatePicker.tsx:41
    inputValue,  \* useState(""), DatePicker.tsx:42, a sequence of characters
    panelYear,   \* useState of DatePickerPoputContent, DatePicker.tsx:171
    panelMonth,  \* useState of DatePickerPoputContent, DatePicker.tsx:172
    latest,      \* latestUpdateValueFromInput.current: what its closure captured
    ev,          \* the event that produced this state
    cell,        \* the grid cell the last event clicked (NoCell otherwise)
    typed,       \* e.target.value of the last event, a text edit (<<>> otherwise)
    calls,       \* the dates onChange was invoked with during the last event
    onChange,    \* prop `onChange`: the name of the caller's callback
    called,      \* the callbacks invoked during the last event, one per call
    mounted,     \* the instances of <DatePicker> that are mounted
    listeners    \* per instance, its click listeners registered on document

vars == <<value, min, max, showPopup, inputValue, panelYear, panelMonth,
          latest, ev, cell, typed, calls, onChange, called, mounted, listeners>>

(***************************************************************************)
(* Bounds of the model.                                                    *)
(***************************************************************************)
\* The panel positions the user navigates and clicks in are the months from
\* February 2023 to MonthSpan months later.
MonthSpan == 12

\* The instances of <DatePicker> a page may hold.  The variables of the
\* component are those of instance 1; of the others only the mounting and the
\* document listeners are followed.
MaxInstances == 2

Instances == 1 .. MaxInstances

\* The months since year 0 of a panel position.
MonthIndex(y, m) == 12 * y + m

PanelWindow == MonthIndex(2023, 1) .. (MonthIndex(2023, 1) + MonthSpan)

InWindow(s) == MonthIndex(s.panelYear, s.panelMonth) \in PanelWindow

(***************************************************************************)
(* Dates and texts.                                                        *)
(***************************************************************************)
\* A JavaScript Date at local midnight: year, zero-based month, day of month.
Date(y, m, d) == [year |-> y, month |-> m, date |-> d]

\* JavaScript's `undefined` where a Date is expected.
Undefined == [year |-> -1, month |-> -1, date |-> -1]

Digits == <<"0", "1", "2", "3", "4", "5", "6", "7", "8", "9">>

IsDigit(c) == \E i \in 1..10 : Digits[i] = c

DigitVal(c) == (CHOOSE i \in 1..10 : Digits[i] = c) - 1

\* The decimal digits of n, zero padded on the left to width w.
RECURSIVE Pad(_, _)
Pad(n, w) == IF w = 0 THEN <<>> ELSE Pad(n \div 10, w - 1) \o <<Digits[(n % 10) + 1]>>

\* The number a sequence of digits denotes.
RECURSIVE Num(_)
Num(t) == IF t = <<>> THEN 0 ELSE 10 * Num(SubSeq(t, 1, Len(t) - 1)) + DigitVal(t[Len(t)])

IsLeapYear(y) == (y % 4 = 0 /\ y % 100 # 0) \/ y % 400 = 0

\* utils getDaysAmountInAMonth: the day count of (year, zero-based month).
getDaysAmountInAMonth(y, m) ==
    IF m = 1 THEN (IF IsLeapYear(y) THEN 29 ELSE 28)
    ELSE IF m \in {3, 5, 8, 10} THEN 30 ELSE 31

\* utils getInputValueFromDate: the canonical text YYYY-MM-DD of a date.
getInputValueFromDate(d) ==
    Pad(d.year, 4) \o <<"-">> \o Pad(d.month + 1, 2) \o <<"-">> \o Pad(d.date, 2)

\* The canonical shape: four digits, a dash, two digits, a dash, two digits.
HasDateShape(t) ==
    /\ Len(t) = 10
    /\ t[5] = "-"
    /\ t[8] = "-"
    /\ \A i \in {1, 2, 3, 4, 6, 7, 9, 10} : IsDigit(t[i])

\* utils getDateFromInputValue: the date a text denotes, or Undefined when the
\* text has not the canonical shape or names an impossible calendar date.
getDateFromInputValue(t) ==
    IF ~HasDateShape(t) THEN Undefined
    ELSE LET y == Num(SubSeq(t, 1, 4))
             m == Num(SubSeq(t, 6, 7))
             d == Num(SubSeq(t, 9, 10))
         IN IF m \in 1..12 /\ d >= 1 /\ d <= getDaysAmountInAMonth(y, m - 1)
            THEN Date(y, m - 1, d)
            ELSE Undefined

\* a earlier than b, as Date comparison orders two local midnights.
Before(a, b) ==
    \/ a.year < b.year
    \/ a.year = b.year /\ a.month < b.month
    \/ a.year = b.year /\ a.month = b.month /\ a.date < b.date

\* utils isInRange: not earlier than min (when present) and not later than max
\* (when present).
isInRange(d, mn, mx) ==
    /\ mn = Undefined \/ ~Before(d, mn)
    /\ mx = Undefined \/ ~Before(mx, d)

\* String.prototype.trim restricted to the blank character.
RECURSIVE trim(_)
trim(t) ==
    IF t = <<>> THEN t
    ELSE IF Head(t) = " " THEN trim(Tail(t))
    ELSE IF t[Len(t)] = " " THEN trim(SubSeq(t, 1, Len(t) - 1))
    ELSE t

(***************************************************************************)
(* The calendar grid builder of ./utils.                                   *)
(***************************************************************************)
Cell(y, m, d, t) == [year |-> y, month |-> m, date |-> d, type |-> t]

NoCell == Cell(-1, -1, -1, "none")

\* Date.prototype.getDay of day 1 of (year, zero-based month), Sunday = 0.
FirstWeekDay(y, m) ==
    LET t  == <<0, 3, 2, 5, 0, 3, 5, 1, 4, 6, 2, 4>>
        yy == IF m < 2 THEN y - 1 ELSE y
    IN (yy + (yy \div 4) - (yy \div 100) + (yy \div 400) + t[m + 1] + 1) % 7

\* utils getCurrentMonthDays: days 1..total of the month, tagged current.
getCurrentMonthDays(y, m, total) ==
    [i \in 1..total |-> Cell(y, m, i, "current")]

\* utils getPreviousMonthDays: the trailing N days of the month before, N the
\* weekday of day 1; December of the year before when the month is January.
getPreviousMonthDays(y, m) ==
    LET n     == FirstWeekDay(y, m)
        py    == IF m = 0 THEN y - 1 ELSE y
        pm    == IF m = 0 THEN 11 ELSE m - 1
        total == getDaysAmountInAMonth(py, pm)
    IN [i \in 1..n |-> Cell(py, pm, total - n + i, "previous")]

\* utils getNextMonthDays: the leading days of the month after that pad the
\* grid to 42 cells; January of the year after when the month is December.
getNextMonthDays(y, m) ==
    LET n  == 42 - FirstWeekDay(y, m) - getDaysAmountInAMonth(y, m)
        ny == IF m = 11 THEN y + 1 ELSE y
        nm == IF m = 11 THEN 0 ELSE m + 1
    IN [i \in 1..n |-> Cell(ny, nm, i, "next")]

\* The dateCells memo without the days of the month before.
dateCells_noPrevious(py, pm) ==
    LET daysInAMonth == getDaysAmountInAMonth(py, pm)
    IN getCurrentMonthDays(py, pm, daysInAMonth)
         \o getNextMonthDays(py, pm)

\* DatePickerPoputContent, the dateCells memo.
dateCells(py, pm) ==
    LET daysInAMonth == getDaysAmountInAMonth(py, pm)
    IN getPreviousMonthDays(py, pm)
         \o getCurrentMonthDays(py, pm, daysInAMonth)
         \o getNextMonthDays(py, pm)

\* The Date constructor `new Date(y, m, d)` for m in -1..11 and d in 1..31:
\* a month of -1 is December of the year before and a day past the end of the
\* month runs over into the month after.
NewDate(y, m, d) ==
    LET y1 == IF m < 0 THEN y - 1 ELSE y
        m1 == IF m < 0 THEN m + 12 ELSE m
        n  == getDaysAmountInAMonth(y1, m1)
    IN IF d <= n THEN Date(y1, m1, d)
       ELSE IF m1 = 11 THEN Date(y1 + 1, 0, d - n)
       ELSE Date(y1, m1 + 1, d - n)

\* DatePickerPoputContent, the class "calendar-panel-item--not-in-range" of a
\* cell: !isDateInRange, computed for the Date built from the month before
\* the cell's.
isNotInRangeCell(c, mn, mx) ==
    ~isInRange(NewDate(c.year, c.month - 1, c.date), mn, mx)

(***************************************************************************)
(* Inputs of the model: what the caller passes and what the user types.    *)
(***************************************************************************)
\* Values of the prop `value` at mount.
InitDates == {Date(2023, 4, 15)}

\* Values the caller may pass as `value` on its own later on.
ExternalDates == {Date(2023, 4, 15), Date(2023, 9, 5)}

\* The pairs <<min, max>> the caller may pass.
BoundsChoices ==
    { <<Undefined, Undefined>>,
      <<Date(2023, 4, 1), Date(2023, 4, 31)>> }

\* What the user may leave in the input field (e.target.value).
TypedTexts ==
    { getInputValueFromDate(Date(2023, 5, 1)),
      <<" ">> \o getInputValueFromDate(Date(2023, 5, 1)) \o <<" ">>,
      getInputValueFromDate(Date(2023, 2, 10)),
      <<"a", "b", "c", "d">>,
      <<"2", "0", "2", "3", "-", "0", "2", "-", "3", "0">> }

\* The grid positions the user may click: the first cell (tagged previous, or
\* current when the month starts on a Sunday) and the last cell (tagged next).
ClickCells == {1, 42}

\* The keys the user may press in the input.
Keys == {"Enter", "Escape"}

\* The callbacks the caller may pass as `onChange`; App passes setDate.
Callbacks == {"setDate", "other"}

(***************************************************************************)
(* The components.  A record s holds the props and the state of one        *)
(* render of DatePicker and of DatePickerPoputContent, and the onChange    *)
(* calls made so far during the event being handled.  panelYear and        *)
(* panelMonth are 0 while the popup content is not mounted.                *)
(***************************************************************************)
St ==
    [value |-> value, min |-> min, max |-> max, showPopup |-> showPopup,
     inputValue |-> inputValue, panelYear |-> panelYear,
     panelMonth |-> panelMonth, calls |-> <<>>,
     onChange |-> onChange, called |-> <<>>]

\* What the function updateValueOnPopupCloseAction made by a render reads from
\* that render.
Closure(s) ==
    [inputValue |-> s.inputValue, value |-> s.value, min |-> s.min, max |-> s.max,
     onChange |-> s.onChange]

\* useLatest without the layout effect: the ref keeps the function of the
\* first render.
useLatest_neverUpdated(s) == latest

\* useLatest: after a render is committed the ref holds that render's function.
useLatest(s) == Closure(s)

\* updateValueOnPopupCloseAction committing the selected date it captured
\* instead of the date it parsed.
updateValueOnPopupCloseAction_commitsValue(s, c) ==
    LET date   == getDateFromInputValue(c.inputValue)
        closed == [s EXCEPT !.showPopup = FALSE]
    IN IF date = Undefined
       THEN [closed EXCEPT !.inputValue = getInputValueFromDate(c.value)]
       ELSE IF ~isInRange(date, c.min, c.max)
       THEN closed
       ELSE [closed EXCEPT !.calls = Append(@, c.value),
                            !.called = Append(@, c.onChange)]

\* updateValueOnPopupCloseAction reverting the text on a date out of range too.
updateValueOnPopupCloseAction_revertsOutOfRange(s, c) ==
    LET date   == getDateFromInputValue(c.inputValue)
        closed == [s EXCEPT !.showPopup = FALSE]
    IN IF date = Undefined \/ ~isInRange(date, c.min, c.max)
       THEN [closed EXCEPT !.inputValue = getInputValueFromDate(c.value)]
       ELSE [closed EXCEPT !.calls = Append(@, date),
                            !.called = Append(@, c.onChange)]

\* updateValueOnPopupCloseAction without the revert of an unparseable text.
updateValueOnPopupCloseAction_noRevert(s, c) ==
    LET date   == getDateFromInputValue(c.inputValue)
        closed == [s EXCEPT !.showPopup = FALSE]
    IN IF date = Undefined
       THEN closed
       ELSE IF ~isInRange(date, c.min, c.max)
       THEN closed
       ELSE [closed EXCEPT !.calls = Append(@, date),
                            !.called = Append(@, c.onChange)]

\* updateValueOnPopupCloseAction without the range check.
updateValueOnPopupCloseAction_noRangeCheck(s, c) ==
    LET date   == getDateFromInputValue(c.inputValue)
        closed == [s EXCEPT !.showPopup = FALSE]
    IN IF date = Undefined
       THEN [closed EXCEPT !.inputValue = getInputValueFromDate(c.value)]
       ELSE [closed EXCEPT !.calls = Append(@, date),
                            !.called = Append(@, c.onChange)]

\* updateValueOnPopupCloseAction, run with the values c its closure captured.
updateValueOnPopupCloseAction(s, c) ==
    LET date   == getDateFromInputValue(c.inputValue)
        closed == [s EXCEPT !.showPopup = FALSE]
    IN IF date = Undefined
       THEN [closed EXCEPT !.inputValue = getInputValueFromDate(c.value)]
       ELSE IF ~isInRange(date, c.min, c.max)
       THEN closed
       ELSE [closed EXCEPT !.calls = Append(@, date),
                            !.called = Append(@, c.onChange)]

\* onDocumentClick: the document level click listener.  contained is
\* element.contains(target).
onDocumentClick(s, c, contained) ==
    IF contained THEN s ELSE updateValueOnPopupCloseAction(s, c)

\* The document click effect without its cleanup.
documentClickEffect_noCleanup(ls, i, phase) ==
    IF phase = "mount" THEN [ls EXCEPT ![i] = @ + 1] ELSE ls

\* The useEffect that registers onDocumentClick, as it acts on the listeners
\* of document.  On mount it adds the listener of instance i; on an update its
\* dependency, the ref object, is the same and it does not run; on unmount its
\* cleanup removes the listener.
documentClickEffect(ls, i, phase) ==
    IF phase = "mount" THEN [ls EXCEPT ![i] = @ + 1]
    ELSE IF phase = "unmount" THEN [ls EXCEPT ![i] = IF @ > 0 THEN @ - 1 ELSE @]
    ELSE ls

\* A click event at document: each of the n listeners instance 1 has
\* registered runs.
RECURSIVE documentClick(_, _, _, _)
documentClick(s, c, contained, n) ==
    IF n = 0 THEN s
    ELSE documentClick(onDocumentClick(s, c, contained), c, contained, n - 1)

\* handleChange: the onChange prop handed to the popup content.
handleChange(s, d) ==
    [s EXCEPT !.calls = Append(@, d), !.called = Append(@, s.onChange),
              !.showPopup = FALSE]

\* onInputValueChange without the trim.
onInputValueChange_noTrim(s, text) == [s EXCEPT !.inputValue = text]

\* onInputValueChange.
onInputValueChange(s, text) == [s EXCEPT !.inputValue = trim(text)]

\* onInputClick.
onInputClick(s) == [s EXCEPT !.showPopup = TRUE]

\* The useMemo giving no inputValueDate for a date out of range.
inputValueMemo_gatesDate(text, mn, mx) ==
    LET date          == getDateFromInputValue(text)
        isDateInRange == isInRange(date, mn, mx)
    IN IF date = Undefined \/ ~isDateInRange
       THEN [date |-> Undefined, valid |-> FALSE]
       ELSE [date |-> date, valid |-> TRUE]

\* The useMemo giving [inputValueDate, isValidInputValue].
inputValueMemo(text, mn, mx) ==
    LET date          == getDateFromInputValue(text)
        isDateInRange == isInRange(date, mn, mx)
    IN IF date = Undefined
       THEN [date |-> Undefined, valid |-> FALSE]
       ELSE [date |-> date, valid |-> TRUE]

\* onKeyDown without the test of the key.
onKeyDown_anyKey(s, key) == updateValueOnPopupCloseAction(s, Closure(s))

\* onKeyDown.
onKeyDown(s, key) ==
    IF key # "Enter" THEN s ELSE updateValueOnPopupCloseAction(s, Closure(s))

\* onDateSelect with the month taken one too low.
onDateSelect_monthOff(s, item) ==
    handleChange(s, Date(item.year, item.month - 1, item.date))

\* onDateSelect of the popup content.
onDateSelect(s, item) == handleChange(s, Date(item.year, item.month, item.date))

\* nextYear committing as well: it closes the popup.
nextYear_closes(s) == [s EXCEPT !.panelYear = s.panelYear + 1, !.showPopup = FALSE]

\* nextYear.
nextYear(s) == [s EXCEPT !.panelYear = s.panelYear + 1]

\* prevYear.
prevYear(s) == [s EXCEPT !.panelYear = s.panelYear - 1]

\* nextMonth without the wrap at December.
nextMonth_noWrap(s) == [s EXCEPT !.panelMonth = s.panelMonth + 1]

\* nextMonth.
nextMonth(s) ==
    IF s.panelMonth = 11
    THEN [s EXCEPT !.panelMonth = 0, !.panelYear = s.panelYear + 1]
    ELSE [s EXCEPT !.panelMonth = s.panelMonth + 1]

\* prevMonth.
prevMonth(s) ==
    IF s.panelMonth = 0
    THEN [s EXCEPT !.panelMonth = 11, !.panelYear = s.panelYear - 1]
    ELSE [s EXCEPT !.panelMonth = s.panelMonth - 1]

\* The caller's onChange (App passes setDate): it adopts the date it is given
\* as the new `value`, or ignores it.
Adopt(s, adopt) ==
    IF adopt /\ s.calls # <<>> THEN [s EXCEPT !.value = s.calls[Len(s.calls)]] ELSE s

(***************************************************************************)
(* The re-render that follows the state changes of a handler, layout       *)
(* effects included.  old is the render committed before, s the props and  *)
(* state the handlers left; newValue and newBounds say that the caller     *)
(* passed a new Date object as `value`, as `min` or `max`.                 *)
(*  - DatePicker.tsx:45-47: a new `value` resets inputValue to its text.   *)
(*  - DatePicker.tsx:106-116: inputValueDate is a new object whenever      *)
(*    inputValue, min or max changed.                                      *)
(*  - DatePicker.tsx:141-151: the popup content is mounted iff showPopup.  *)
(*  - DatePicker.tsx:171-172: on mount the panel starts at `value`.        *)
(*  - DatePicker.tsx:175-181: on mount and whenever inputValueDate is a    *)
(*    new object that is not undefined, the panel moves to it.             *)
(***************************************************************************)
\* A render in which the popup content, when it mounts, stays at the year and
\* month of `value`.
Render_noMountSync(old, s, newValue, newBounds) ==
    LET text    == IF newValue THEN getInputValueFromDate(s.value) ELSE s.inputValue
        memo    == inputValueMemo(text, s.min, s.max)
        memoNew == newBounds \/ text # old.inputValue
        mount   == s.showPopup /\ ~old.showPopup
        sync    == ~mount /\ memoNew /\ memo.date # Undefined
    IN [s EXCEPT
          !.inputValue = text,
          !.panelYear  = IF ~s.showPopup THEN 0
                         ELSE IF sync THEN memo.date.year
                         ELSE IF mount THEN s.value.year
                         ELSE s.panelYear,
          !.panelMonth = IF ~s.showPopup THEN 0
                         ELSE IF sync THEN memo.date.month
                         ELSE IF mount THEN s.value.month
                         ELSE s.panelMonth]

\* A render whose layout effect does not follow `value`.
Render_keepsText(old, s, newValue, newBounds) ==
    LET text    == s.inputValue
        memo    == inputValueMemo(text, s.min, s.max)
        memoNew == newBounds \/ text # old.inputValue
        mount   == s.showPopup /\ ~old.showPopup
        sync    == (mount \/ memoNew) /\ memo.date # Undefined
    IN [s EXCEPT
          !.inputValue = text,
          !.panelYear  = IF ~s.showPopup THEN 0
                         ELSE IF sync THEN memo.date.year
                         ELSE IF mount THEN s.value.year
                         ELSE s.panelYear,
          !.panelMonth = IF ~s.showPopup THEN 0
                         ELSE IF sync THEN memo.date.month
                         ELSE IF mount THEN s.value.month
                         ELSE s.panelMonth]

Render(old, s, newValue, newBounds) ==
    LET text    == IF newValue THEN getInputValueFromDate(s.value) ELSE s.inputValue
        memo    == inputValueMemo(text, s.min, s.max)
        memoNew == newBounds \/ text # old.inputValue
        mount   == s.showPopup /\ ~old.showPopup
        sync    == (mount \/ memoNew) /\ memo.date # Undefined
    IN [s EXCEPT
          !.inputValue = text,
          !.panelYear  = IF ~s.showPopup THEN 0
                         ELSE IF sync THEN memo.date.year
                         ELSE IF mount THEN s.value.year
                         ELSE s.panelYear,
          !.panelMonth = IF ~s.showPopup THEN 0
                         ELSE IF sync THEN memo.date.month
                         ELSE IF mount THEN s.value.month
                         ELSE s.panelMonth]

\* The caller's reaction to the onChange calls a handler made, and the render
\* that follows.
Settle(old, s, adopt) ==
    Render(old, Adopt(s, adopt), adopt /\ Len(s.calls) > Len(old.calls), FALSE)

\* The state an event leaves behind (r is the value of rr, evaluated once).
Finish(rr, e, c, t) ==
  \E r \in {rr} :
    /\ value' = r.value
    /\ min' = r.min
    /\ max' = r.max
    /\ showPopup' = r.showPopup
    /\ inputValue' = r.inputValue
    /\ panelYear' = r.panelYear
    /\ panelMonth' = r.panelMonth
    /\ latest' = useLatest(r)
    /\ ev' = e
    /\ cell' = c
    /\ typed' = t
    /\ calls' = r.calls
    /\ onChange' = r.onChange
    /\ called' = r.called
    /\ mounted' = mounted
    /\ listeners' = documentClickEffect(listeners, 1, "update")

Apply(r, e, c) == Finish(r, e, c, <<>>)

(***************************************************************************)
(* The state after the first render of <DatePicker> and its layout         *)
(* effects: inputValue holds the text of `value`, the popup is closed.     *)
(***************************************************************************)
Init ==
    \E d \in InitDates, b \in BoundsChoices :
        /\ value = d
        /\ min = b[1]
        /\ max = b[2]
        /\ showPopup = FALSE
        /\ inputValue = getInputValueFromDate(d)
        /\ panelYear = 0
        /\ panelMonth = 0
        /\ latest = [inputValue |-> getInputValueFromDate(d), value |-> d,
                     min |-> b[1], max |-> b[2], onChange |-> "setDate"]
        /\ ev = "mount"
        /\ cell = NoCell
        /\ typed = <<>>
        /\ calls = <<>>
        /\ onChange = "setDate"
        /\ called = <<>>
        /\ mounted = {1}
        /\ listeners = documentClickEffect([i \in Instances |-> 0], 1, "mount")

(***************************************************************************)
(* The events.                                                             *)
(***************************************************************************)
\* A click on the input: onInputClick, then the document listener, whose
\* target is inside the root element.
InputClick ==
    LET r == Render(St, onInputClick(St), FALSE, FALSE)
    IN Apply(documentClick(r, useLatest(r), TRUE, listeners[1]), "inputClick", NoCell)

\* The user edits the text of the input.  React calls onChange only when the
\* text of the field differs from the value it controls the field with.
InputChangeWith(texts) ==
    \E text \in texts :
      /\ text # inputValue
      /\ Finish(Render(St, onInputValueChange(St, text), FALSE, FALSE),
               "inputChange", NoCell, text)

InputChange == InputChangeWith(TypedTexts)

\* The user presses a key in the input; the caller's onChange adopts the date
\* or not, as adopts allows.
KeyDownWith(adopts) ==
    \E key \in Keys, adopt \in adopts :
        Apply(Settle(St, onKeyDown(St, key), adopt),
              IF key = "Enter" THEN "keyEnter" ELSE "keyOther", NoCell)

KeyDown == KeyDownWith(BOOLEAN)

\* A click outside the root element of the control.
OutsideClickWith(adopts) ==
    \E adopt \in adopts :
        Apply(Settle(St, documentClick(St, latest, FALSE, listeners[1]), adopt),
              "outsideClick", NoCell)

OutsideClick == OutsideClickWith(BOOLEAN)

\* A click inside the popup that hits no handler (the month label, a week day).
InsideClick ==
    /\ showPopup
    /\ Apply(documentClick(St, latest, TRUE, listeners[1]), "insideClick", NoCell)

\* A click on a grid cell.  React runs onDateSelect at the root container and,
\* in a browser, commits the re-render before the click reaches the document:
\* the popup is unmounted by then, the clicked cell is no longer in the
\* document and element.contains(target) is false (flushed).  When the event
\* is dispatched from script the listener runs before the re-render and the
\* cell is still contained.
CellClick ==
    /\ showPopup
    /\ InWindow(St)
    /\ \E i \in ClickCells, adopt \in BOOLEAN, flushed \in BOOLEAN :
         \E item \in {dateCells(panelYear, panelMonth)[i]} :
         \E r1 \in {Settle(St, onDateSelect(St, item), adopt)} :
             Apply(Settle(r1, documentClick(r1, useLatest(r1), ~flushed,
                                            listeners[1]), adopt),
                   "cellClick", item)

NextYear ==
    /\ showPopup
    /\ InWindow(nextYear(St))
    /\ Apply(Render(St, nextYear(St), FALSE, FALSE), "nextYear", NoCell)

PrevYear ==
    /\ showPopup
    /\ InWindow(prevYear(St))
    /\ Apply(Render(St, prevYear(St), FALSE, FALSE), "prevYear", NoCell)

NextMonth ==
    /\ showPopup
    /\ InWindow(nextMonth(St))
    /\ Apply(Render(St, nextMonth(St), FALSE, FALSE), "nextMonth", NoCell)

PrevMonth ==
    /\ showPopup
    /\ InWindow(prevMonth(St))
    /\ Apply(Render(St, prevMonth(St), FALSE, FALSE), "prevMonth", NoCell)

\* The caller passes a new Date object as `value`.
SetValue ==
    \E d \in ExternalDates :
        Apply(Render(St, [St EXCEPT !.value = d], TRUE, FALSE), "setValue", NoCell)

\* The caller passes new Date objects (or none) as `min` and `max`.  A Date
\* passed is a new object and so a changed dependency of the memo; undefined
\* passed where undefined was is not.
SetBounds ==
    \E b \in BoundsChoices :
        Apply(Render(St, [St EXCEPT !.min = b[1], !.max = b[2]], FALSE,
                     <<b[1], b[2], min, max>>
                         # <<Undefined, Undefined, Undefined, Undefined>>),
              "setBounds", NoCell)

\* The caller passes another function as `onChange`.
SetOnChange ==
    \E f \in Callbacks :
        Apply(Render(St, [St EXCEPT !.onChange = f], FALSE, FALSE),
              "setOnChange", NoCell)

Next ==
    \/ InputClick
    \/ InputChange
    \/ KeyDown
    \/ OutsideClick
    \/ InsideClick
    \/ CellClick
    \/ NextYear
    \/ PrevYear
    \/ NextMonth
    \/ PrevMonth
    \/ SetValue
    \/ SetBounds

Spec == Init /\ [][Next]_vars

\* The control under a caller that also changes the callback it passes.
NextLatest == Next \/ SetOnChange

SpecLatest == Init /\ [][NextLatest]_vars

(***************************************************************************)
(* Properties.  In an action formula the unprimed variables are the state  *)
(* before the event and ev' names the event.                               *)
(***************************************************************************)
\* The date the text in the input denotes (Undefined when it denotes none).
TextDate == getDateFromInputValue(inputValue)

\* The events that run the commit on popup close.
CloseTriggers == {"keyEnter", "outsideClick"}

NavEvents == {"prevYear", "nextYear", "prevMonth", "nextMonth"}

\* The date of a grid cell, as onDateSelect builds it.
CellDate(c) == Date(c.year, c.month, c.date)

\* C1: when Enter or an outside click fires while the text parses to a date
\* within the bounds (or no bounds are set), onChange is invoked with exactly
\* that date and the popup is closed afterwards.
C1_TextCommitAccepted ==
    [][ (/\ ev' \in CloseTriggers
         /\ TextDate # Undefined
         /\ isInRange(TextDate, min, max))
        => (calls' = <<TextDate>> /\ ~showPopup') ]_vars

\* Enter committed the typed text 2023-06-01 with no bounds set.
C1_Witness ==
    /\ ev = "keyEnter"
    /\ min = Undefined /\ max = Undefined
    /\ calls = <<Date(2023, 5, 1)>>
    /\ inputValue = getInputValueFromDate(Date(2023, 5, 1))
    /\ ~showPopup

\* C2: when Enter or an outside click fires while the text parses to a date
\* earlier than min or later than max, onChange is not invoked, the popup is
\* closed, the selected date is unchanged and the text stays as typed.
C2_TextCommitOutOfRange ==
    [][ (/\ ev' \in CloseTriggers
         /\ TextDate # Undefined
         /\ ~isInRange(TextDate, min, max))
        => (/\ calls' = <<>>
            /\ ~showPopup'
            /\ value' = value
            /\ inputValue' = inputValue) ]_vars

\* An outside click left the out of range text 2023-06-01 in the input.
C2_Witness ==
    /\ ev = "outsideClick"
    /\ max = Date(2023, 4, 31)
    /\ inputValue = getInputValueFromDate(Date(2023, 5, 1))
    /\ inputValue # getInputValueFromDate(value)
    /\ calls = <<>>
    /\ ~showPopup

\* C3: when Enter or an outside click fires while the text parses to no date,
\* onChange is not invoked, the popup is closed, the selected date is unchanged
\* and the text becomes the canonical text of the selected date.
C3_TextCommitUnparseable ==
    [][ (/\ ev' \in CloseTriggers
         /\ TextDate = Undefined)
        => (/\ calls' = <<>>
            /\ ~showPopup'
            /\ value' = value
            /\ inputValue' = getInputValueFromDate(value)) ]_vars

\* Enter reverted the text: the text is that of an in-range selected date, and
\* yet nothing was committed, so the text before was not a date.
C3_Witness ==
    /\ ev = "keyEnter"
    /\ calls = <<>>
    /\ inputValue = getInputValueFromDate(value)
    /\ isInRange(value, min, max)
    /\ value = Date(2023, 9, 5)
    /\ ~showPopup

\* C4: a click on a grid cell of the open popup invokes onChange with the date
\* of that cell and leaves the popup closed, whatever the text and whether or
\* not the date is within the bounds; a cell tagged previous clicked while the
\* panel shows March commits a date of February.
C4_CellClickCommits ==
    [][ ev' = "cellClick"
        => (/\ showPopup
            /\ LET grid == dateCells(panelYear, panelMonth)
               IN \E i \in DOMAIN grid : grid[i] = cell'
            /\ calls' # <<>>
            /\ calls'[1] = CellDate(cell')
            /\ ~showPopup'
            /\ (cell'.type = "previous" /\ panelMonth = 2
                  => calls'[1].month = 1 /\ calls'[1].year = panelYear)) ]_vars

\* A cell tagged previous was clicked in the panel of March 2023 while the
\* bounds were those of May 2023: 26 February 2023 was committed.
C4_Witness ==
    /\ ev = "cellClick"
    /\ cell = Cell(2023, 1, 26, "previous")
    /\ calls = <<Date(2023, 1, 26)>>
    /\ min = Date(2023, 4, 1)
    /\ ~showPopup

\* C5: no user event causes more than one onChange call, and a cell click
\* causes exactly one (it does not run the outside-click commit as well).
C5_OnChangeOncePerEvent ==
    /\ Len(calls) <= 1
    /\ ev = "cellClick" => Len(calls) = 1

\* C6: the popup starts closed; it opens only by a click on the input; it
\* closes only by an outside click, Enter, or a cell click; no other event
\* changes it.
C6_PopupStateMachine ==
    /\ showPopup = FALSE
    /\ [][ /\ (~showPopup /\ showPopup') => ev' = "inputClick"
           /\ (showPopup /\ ~showPopup')
                => ev' \in {"outsideClick", "keyEnter", "cellClick"} ]_vars

\* The popup stayed open through a text edit, a key other than Enter, a
\* navigation step or a change of the props.
C6_Witness ==
    /\ showPopup
    /\ ev = "setBounds"
    /\ inputValue # getInputValueFromDate(value)
    /\ MonthIndex(panelYear, panelMonth) # MonthIndex(value.year, value.month)

\* C7: the validity flag given to rendering is true iff the text parses to a
\* date and that date is within the bounds.
C7_ValidityFlag ==
    inputValueMemo(inputValue, min, max).valid
        = (TextDate # Undefined /\ isInRange(TextDate, min, max))

\* C8: next-month from December goes to January of the next year, otherwise
\* one month on in the same year; prev-month from January goes to December of
\* the year before, otherwise one month back; next-year and prev-year change
\* the year by one and keep the month; the month stays within 0..11; four
\* next-month steps from October give February of the next year.
C8_NavigationWraps ==
    [][ /\ ev' = "nextMonth"
          => IF panelMonth = 11
             THEN panelMonth' = 0 /\ panelYear' = panelYear + 1
             ELSE panelMonth' = panelMonth + 1 /\ panelYear' = panelYear
        /\ ev' = "prevMonth"
          => IF panelMonth = 0
             THEN panelMonth' = 11 /\ panelYear' = panelYear - 1
             ELSE panelMonth' = panelMonth - 1 /\ panelYear' = panelYear
        /\ ev' = "nextYear"
          => panelYear' = panelYear + 1 /\ panelMonth' = panelMonth
        /\ ev' = "prevYear"
          => panelYear' = panelYear - 1 /\ panelMonth' = panelMonth
        /\ showPopup' => panelMonth' \in 0..11
        /\ (showPopup /\ panelMonth = 9)
          => LET s4 == nextMonth(nextMonth(nextMonth(nextMonth(St))))
             IN s4.panelMonth = 1 /\ s4.panelYear = panelYear + 1 ]_vars

\* Next-month reached February 2024, past the wrap at December 2023.
C8_Witness ==
    /\ ev = "nextMonth"
    /\ showPopup
    /\ panelYear = 2024
    /\ panelMonth = 1

\* C9: a navigation action changes the panel position only: the selected
\* date, the bounds, the text and the popup flag stay, onChange is not invoked.
C9_NavigationFrame ==
    [][ ev' \in NavEvents
        => (/\ value' = value
            /\ min' = min
            /\ max' = max
            /\ inputValue' = inputValue
            /\ showPopup' = showPopup
            /\ calls' = <<>>
            /\ <<panelYear', panelMonth'>> # <<panelYear, panelMonth>>) ]_vars

\* Next-year moved the panel while the input held a text that is not the
\* selected date's.
C9_Witness ==
    /\ ev = "nextYear"
    /\ showPopup
    /\ inputValue = <<"a", "b", "c", "d">>
    /\ panelYear = 2024

\* C10 as stated: a text edit sets the text to the typed string trimmed and
\* touches neither the selected date, nor the panel position, nor the popup
\* flag, and does not invoke onChange.
C10_TextEditFrame_AsStated ==
    [][ ev' = "inputChange"
        => (/\ inputValue' = trim(typed')
            /\ value' = value
            /\ calls' = <<>>
            /\ showPopup' = showPopup
            /\ panelYear' = panelYear
            /\ panelMonth' = panelMonth) ]_vars

\* C10 amended: a text edit sets the text to the typed string trimmed and
\* touches neither the selected date nor the popup flag, and does not invoke
\* onChange; the panel position stays unless the popup is open and the edit
\* changes the text to one that parses to a date, and then the panel moves to
\* the year and month of that date.
C10_TextEditFrame ==
    [][ ev' = "inputChange"
        => (/\ inputValue' = trim(typed')
            /\ value' = value
            /\ calls' = <<>>
            /\ showPopup' = showPopup
            /\ LET date == getDateFromInputValue(inputValue')
               IN IF showPopup /\ inputValue' # inputValue /\ date # Undefined
                  THEN panelYear' = date.year /\ panelMonth' = date.month
                  ELSE panelYear' = panelYear /\ panelMonth' = panelMonth) ]_vars

\* A text typed with blanks around it was stored trimmed while the popup was
\* open, and the panel moved from the selected date's month to the typed one.
C10_Witness ==
    /\ ev = "inputChange"
    /\ typed # inputValue
    /\ inputValue = getInputValueFromDate(Date(2023, 5, 1))
    /\ showPopup
    /\ value = Date(2023, 4, 15)
    /\ panelYear = 2023
    /\ panelMonth = 5


\* C11 as stated: while the popup is open, after any text edit whose resulting
\* text parses to a date (in range or not) the panel is at that date's year
\* and month; after a text edit whose text does not parse the panel stays.
C11_PanelAutoSync_AsStated ==
    [][ (ev' = "inputChange" /\ showPopup)
        => LET date == getDateFromInputValue(inputValue')
           IN IF date # Undefined
              THEN panelYear' = date.year /\ panelMonth' = date.month
              ELSE panelYear' = panelYear /\ panelMonth' = panelMonth ]_vars

\* C11 amended: while the popup is open, after a text edit that changes the
\* text to one that parses to a date (in range or not) the panel is at that
\* date's year and month; after a text edit that leaves the text as it was, or
\* whose text does not parse, the panel stays.
C11_PanelAutoSync ==
    [][ (ev' = "inputChange" /\ showPopup)
        => LET date == getDateFromInputValue(inputValue')
           IN IF date # Undefined /\ inputValue' # inputValue
              THEN panelYear' = date.year /\ panelMonth' = date.month
              ELSE panelYear' = panelYear /\ panelMonth' = panelMonth ]_vars

\* The out of range text 2023-03-10 was typed while the popup was open and the
\* panel is at March 2023.
C11_Witness ==
    /\ ev = "inputChange"
    /\ showPopup
    /\ inputValue = getInputValueFromDate(Date(2023, 2, 10))
    /\ ~isInRange(getDateFromInputValue(inputValue), min, max)
    /\ panelYear = 2023
    /\ panelMonth = 2


\* C12: an outside click acts on the newest props and state, whatever changed
\* since the listener was registered: it parses the text the input holds now,
\* tests the date against the min and max passed now, reverts to the text of
\* the selected date passed now, and calls the onChange passed now.
C12_LatestOutsideClick ==
    [][ ev' = "outsideClick"
        => (/\ ~showPopup'
            /\ IF TextDate = Undefined
               THEN calls' = <<>> /\ inputValue' = getInputValueFromDate(value)
               ELSE IF isInRange(TextDate, min, max)
               THEN calls' = <<TextDate>> /\ called' = <<onChange>>
               ELSE calls' = <<>> /\ inputValue' = inputValue) ]_vars

\* An outside click committed a text typed after mount, within bounds and
\* through a callback that were both passed after mount.
C12_Witness ==
    /\ ev = "outsideClick"
    /\ called = <<"other">>
    /\ calls = <<Date(2023, 5, 1)>>
    /\ min = Undefined
    /\ value = Date(2023, 9, 5)


(***************************************************************************)
(* The life of the instances: mounting, re-rendering and unmounting.       *)
(***************************************************************************)
\* The component variables of instance 1 are left as they are and the event
\* e is noted.
OtherEvent(e) ==
    /\ UNCHANGED <<value, min, max, showPopup, inputValue, panelYear, panelMonth,
                   latest, onChange>>
    /\ ev' = e
    /\ cell' = NoCell
    /\ typed' = <<>>
    /\ calls' = <<>>
    /\ called' = <<>>

\* Instance 1 is mounted again with the props the caller passes now: its state
\* starts afresh and its effects run.
MountFirst ==
    /\ 1 \notin mounted
    /\ mounted' = mounted \cup {1}
    /\ listeners' = documentClickEffect(listeners, 1, "mount")
    /\ showPopup' = FALSE
    /\ inputValue' = getInputValueFromDate(value)
    /\ panelYear' = 0
    /\ panelMonth' = 0
    /\ latest' = useLatest([St EXCEPT !.showPopup = FALSE,
                                     !.inputValue = getInputValueFromDate(value)])
    /\ UNCHANGED <<value, min, max, onChange>>
    /\ ev' = "mount"
    /\ cell' = NoCell
    /\ typed' = <<>>
    /\ calls' = <<>>
    /\ called' = <<>>

\* Another instance is mounted.
MountOther ==
    \E i \in Instances \ (mounted \cup {1}) :
        /\ mounted' = mounted \cup {i}
        /\ listeners' = documentClickEffect(listeners, i, "mount")
        /\ OtherEvent("otherMount")

\* An instance is unmounted: the cleanup of its effect runs.  What instance 1
\* held stays in the variables, as it stays in the closures made by its last
\* render.
Unmount ==
    \E i \in mounted :
        /\ mounted' = mounted \ {i}
        /\ listeners' = documentClickEffect(listeners, i, "unmount")
        /\ OtherEvent(IF i = 1 THEN "unmount" ELSE "otherUnmount")

\* Another instance renders again with new props or state.
RenderOther ==
    \E i \in mounted \ {1} :
        /\ mounted' = mounted
        /\ listeners' = documentClickEffect(listeners, i, "update")
        /\ OtherEvent("otherRender")

\* The events that make instance 1 render again while it is mounted.
RenderFirst ==
    /\ 1 \in mounted
    /\ (InputClick \/ InputChange \/ KeyDown \/ SetValue \/ SetBounds)

NextListeners ==
    \/ MountFirst
    \/ MountOther
    \/ Unmount
    \/ RenderOther
    \/ RenderFirst
    \/ OutsideClick

SpecListeners == Init /\ [][NextListeners]_vars

\* Every mounted instance has one listener on document, every other none.
ListenersMatch ==
    \A i \in Instances : listeners[i] = IF i \in mounted THEN 1 ELSE 0

\* C13: over mounts, re-renders and unmounts of the instances, the listeners
\* registered on document are one per mounted instance; a re-render adds none;
\* once an instance is unmounted its listener is gone and a later click on the
\* document has no effect on it.
C13_ListenerLifecycle ==
    /\ ListenersMatch
    /\ [][ /\ ListenersMatch'
           /\ (1 \notin mounted /\ ev' = "outsideClick")
                => (/\ calls' = <<>>
                    /\ UNCHANGED <<value, min, max, showPopup, inputValue,
                                   panelYear, panelMonth, latest>>) ]_vars

\* Instance 1 is unmounted, another instance is mounted, and a click on the
\* document left alone a text that its listener would have committed.
C13_Witness ==
    /\ 1 \notin mounted
    /\ 2 \in mounted
    /\ ev = "outsideClick"
    /\ calls = <<>>
    /\ showPopup
    /\ TextDate # Undefined
    /\ isInRange(TextDate, min, max)


\* C14: initially the text is the canonical format of the selected date, and
\* whenever the caller supplies a new selected date, by itself or by adopting
\* an onChange call, the text becomes the canonical format of the new date.
C14_ExternalChangeResetsText ==
    /\ inputValue = getInputValueFromDate(value)
    /\ [][ (value' # value \/ ev' = "setValue")
             => inputValue' = getInputValueFromDate(value') ]_vars

\* The caller has supplied another date while the popup was open, and the text
\* is the format of that date.
C14_Witness ==
    /\ ev = "setValue"
    /\ showPopup
    /\ value = Date(2023, 9, 5)
    /\ inputValue = getInputValueFromDate(Date(2023, 9, 5))


\* C15: every cell of the rendered grid is flagged as outside the range
\* exactly when the cell's own date is earlier than min or later than max.
C15_CellRangeFlag ==
    showPopup =>
        LET grid == dateCells(panelYear, panelMonth)
        IN \A i \in DOMAIN grid :
               isNotInRangeCell(grid[i], min, max)
                   = ~isInRange(CellDate(grid[i]), min, max)

\* C16: at every panel position reached, the grid has 42 cells: the cells of
\* the month before first, then one current cell for each day 1..N of the
\* panel month, then the cells of the month after.
C16_GridShape ==
    showPopup =>
        LET grid == dateCells(panelYear, panelMonth)
            N    == getDaysAmountInAMonth(panelYear, panelMonth)
        IN /\ panelMonth \in 0 .. 11
           /\ Len(grid) = 42
           /\ \E p \in 0 .. 6 :
                \A i \in 1 .. 42 :
                    /\ i <= p => grid[i].type = "previous"
                    /\ (p < i /\ i <= p + N)
                         => grid[i] = Cell(panelYear, panelMonth, i - p, "current")
                    /\ i > p + N => grid[i].type = "next"

\* The grid of February 2024, reached by navigation: 29 current cells after 4
\* of January.
C16_Witness ==
    /\ showPopup
    /\ panelYear = 2024
    /\ panelMonth = 1
    /\ ev \in NavEvents
    /\ dateCells(panelYear, panelMonth)[5] = Cell(2024, 1, 1, "current")
    /\ dateCells(panelYear, panelMonth)[33] = Cell(2024, 1, 29, "current")


\* C17 as stated: each time the popup goes from closed to open, the panel
\* shows the year and month of the selected date, whatever the text holds.
C17_PanelOnOpen_AsStated ==
    [][ (~showPopup /\ showPopup')
          => (panelYear' = value'.year /\ panelMonth' = value'.month) ]_vars

\* C17: each time the popup goes from closed to open, the panel shows the
\* year and month of the date the text parses to, within the bounds or not,
\* and those of the selected date when the text does not parse.
C17_PanelOnOpen ==
    [][ (~showPopup /\ showPopup')
          => LET d == getDateFromInputValue(inputValue')
             IN IF d # Undefined
                THEN panelYear' = d.year /\ panelMonth' = d.month
                ELSE panelYear' = value'.year /\ panelMonth' = value'.month ]_vars

\* The popup was opened while the text held 1 June 2023, rejected by the
\* bounds, and the selected date was in May: the panel shows June.
C17_Witness ==
    /\ ev = "inputClick"
    /\ showPopup
    /\ min # Undefined
    /\ TextDate = Date(2023, 5, 1)
    /\ ~isInRange(TextDate, min, max)
    /\ value = Date(2023, 4, 15)
    /\ panelYear = 2023
    /\ panelMonth = 5


\* C18: an outside click or an Enter key press while the popup is closed
\* neither invokes onChange nor changes the text.
C18_CommitsOnlyFromOpen ==
    [][ (~showPopup /\ ev' \in CloseTriggers)
          => (calls' = <<>> /\ inputValue' = inputValue) ]_vars

(***************************************************************************)
(* The text path: fixed bounds, a caller that adopts every onChange call,  *)
(* no click on a grid cell.                                                *)
(***************************************************************************)
\* The texts typed on the text path: those of TypedTexts and a date within the
\* bounds of BoundsChoices other than the initial one.
TextPathTexts == TypedTexts \cup {getInputValueFromDate(Date(2023, 4, 20))}

NextTextPath ==
    \/ InputClick
    \/ InputChangeWith(TextPathTexts)
    \/ KeyDownWith({TRUE})
    \/ OutsideClickWith({TRUE})
    \/ InsideClick
    \/ NextYear
    \/ PrevYear
    \/ NextMonth
    \/ PrevMonth

SpecTextPath == Init /\ [][NextTextPath]_vars

\* C19: on the text path the selected date stays within the bounds and every
\* date passed to onChange is within the bounds.
C19_RangeOnTextPath ==
    /\ isInRange(value, min, max)
    /\ \A i \in DOMAIN calls : isInRange(calls[i], min, max)

\* Under bounds, Enter has committed a typed date within them and the caller
\* has adopted it.
C19_Witness ==
    /\ ev = "keyEnter"
    /\ min # Undefined
    /\ max # Undefined
    /\ calls = <<Date(2023, 4, 20)>>
    /\ value = Date(2023, 4, 20)


\* C20: while the popup stays open, the panel position changes only by a
\* navigation action or by a change of the text to one that parses to a date;
\* a change of the bounds alone does not move it.
C20_PanelStability ==
    [][ (showPopup /\ showPopup'
           /\ <<panelYear', panelMonth'>> # <<panelYear, panelMonth>>)
          => \/ ev' \in NavEvents
             \/ /\ inputValue' # inputValue
                /\ getDateFromInputValue(inputValue') # Undefined ]_vars

====
